---- MODULE Spec2Model ----
(***************************************************************************)
(* aligned_alloc.rs: aligned_alloc(size, align) / aligned_free(ptr).       *)
(*                                                                         *)
(* Two implementations are selected at build time (cfg(unix), cfg(windows))*)
(* The unix one is a pass-through to posix_memalign/free.  The windows one *)
(* reserves size+align-1 bytes, computes an aligned address in the         *)
(* reservation, releases the reservation and commits at the aligned        *)
(* address; alignments up to the page size take a single VirtualAlloc.     *)
(*                                                                         *)
(* The machine is scaled down: a word of WordBits bits, and a word size,   *)
(* page size and allocation granularity in the same order as on the real   *)
(* targets (word < page < granularity).  The user address space lies in    *)
(* the lower half of the address range and leaves out its first granule,   *)
(* as on the real targets, so NULL is never the base of a region.          *)
(***************************************************************************)
EXTENDS Integers, FiniteSets, Sequences, TLC

\* ------------------------------------------------------------------ machine
WordBits == 9
Modulus == 2 ^ WordBits
WordSize == 4
PageSize == 8
AllocGranularity == 32
NULL == 0
UserLo == AllocGranularity
UserHi == 5 * AllocGranularity
\* The malloc heap is one arena at the bottom of the user address space.
HeapLo == UserLo
HeapHi == UserLo + 3 * AllocGranularity

\* ------------------------------------------------------------------ bounds
\* The callers start a new allocation only while they own fewer than MaxLive.
MaxLive == 1

Threads == {"t1", "t2"}
\* The sizes and alignments the callers pass.  Modulus - 1 with 64 leaves the
\* word range; 64 with 64 is the size == align case.
Sizes == {1, 64, Modulus - 1}
Aligns == {0, 2, 3, PageSize, 12, 16, 64}

\* ------------------------------------------------------------ usize arithmetic
RECURSIVE BitAnd(_, _)
BitAnd(a, b) ==
    IF a = 0 \/ b = 0 THEN 0
    ELSE (a % 2) * (b % 2) + 2 * BitAnd(a \div 2, b \div 2)

BitNot(a) == Modulus - 1 - a

RECURSIVE CountOnes(_)
CountOnes(n) == IF n = 0 THEN 0 ELSE (n % 2) + CountOnes(n \div 2)

WrappingAdd(a, b) == (a + b) % Modulus
WrappingSub(a, b) == (a - b + Modulus) % Modulus
AddOverflows(a, b) == a + b >= Modulus
SubOverflows(a, b) == a < b

\* usize::is_power_of_two
IsPowerOfTwoZeroOk(n) == BitAnd(n, WrappingSub(n, 1)) = 0
IsPowerOfTwo(n) == CountOnes(n) = 1

\* `size + align - 1`, evaluated left to right in usize
ReserveSize(size, align) == WrappingSub(WrappingAdd(size, align), 1)
ReserveSizeOverflows(size, align) ==
    AddOverflows(size, align) \/ SubOverflows(WrappingAdd(size, align), 1)

\* `(ptr as usize + align - 1) & !(align - 1)`
AlignUpNone(p, align) == p
AlignUp(p, align) ==
    BitAnd(WrappingSub(WrappingAdd(p, align), 1), BitNot(WrappingSub(align, 1)))
AlignUpOverflows(p, align) ==
    \/ AddOverflows(p, align)
    \/ SubOverflows(WrappingAdd(p, align), 1)
    \/ SubOverflows(align, 1)

\* ------------------------------------------------------------ the platform
RoundUp(n, g) == ((n + g - 1) \div g) * g
RoundDown(n, g) == n - (n % g)

\* VirtualAlloc hands out regions that start on an allocation granule and
\* are a whole number of pages long; the rest of the last granule is unusable.
WinBusy(rs, lo, hi) ==
    \E r \in rs : lo < RoundUp(r.base + r.len, AllocGranularity) /\ r.base < hi

GranuleBases == {b \in UserLo .. (UserHi - 1) : b % AllocGranularity = 0}

\* The regions VirtualAlloc(addr, sz, ..) may create: none when it fails.
VirtualAlloc(rs, addr, sz) ==
    IF sz = 0 THEN {}
    ELSE IF addr = NULL
    THEN {[base |-> b, len |-> RoundUp(sz, PageSize)] :
            b \in {c \in GranuleBases :
                     /\ c + RoundUp(sz, PageSize) <= UserHi
                     /\ ~WinBusy(rs, c, c + RoundUp(sz, PageSize))}}
    ELSE LET b == RoundDown(addr, AllocGranularity)
             e == RoundUp(addr + sz, PageSize)
         IN  IF b >= UserLo /\ e <= UserHi /\ ~WinBusy(rs, b, e)
             THEN {[base |-> b, len |-> e - b]}
             ELSE {}

\* VirtualFree(p, 0, MEM_RELEASE): nonzero iff p is the base of a region.
VirtualFreeRes(rs, p) == IF \E r \in rs : r.base = p THEN 1 ELSE 0
VirtualFree(rs, p) == {r \in rs : r.base # p}

\* posix_memalign: EINVAL unless the alignment is a power of two multiple of
\* sizeof(void *); otherwise a chunk at a multiple of the alignment, or ENOMEM.
PosixAlignmentOk(a) ==
    /\ a # 0
    /\ a % WordSize = 0
    /\ \E k \in 0 .. WordBits : a \div WordSize = 2 ^ k

HeapBusy(rs, lo, hi) == \E r \in rs : lo < r.base + r.len /\ r.base < hi

ChunkLen(sz) == IF sz = 0 THEN 1 ELSE sz

PosixMemalign(rs, a, sz) ==
    {[base |-> b, len |-> ChunkLen(sz)] :
       b \in {c \in HeapLo .. (HeapHi - 1) :
                /\ c % a = 0
                /\ c % (2 * WordSize) = 0
                /\ c + ChunkLen(sz) <= HeapHi
                /\ ~HeapBusy(rs, c, c + ChunkLen(sz))}}

\* ------------------------------------------------------------------ state
VARIABLES
    platform,         \* "unix" or "windows": which `mod imp` is compiled
    PAGE_SIZE,        \* static mut PAGE_SIZE
    regions,          \* the address ranges the platform has handed out
    pc,               \* each thread's position
    size, align,      \* the arguments of the running aligned_alloc
    ptr,              \* the step-1 reservation's base
    aligned_ptr,      \* the step-2 address
    ret,              \* the value the call returns
    freed_ptr,        \* the argument of the running aligned_free
    freed_live,       \* whether that argument was a live allocation of the caller
    held,             \* the allocations each caller owns: [ptr, size]
    fail,             \* why the platform refused the call's request, if it did
    panic_msg,        \* the message of the panic that ended the thread
    ps_writes,        \* how many times PAGE_SIZE has been assigned
    ops               \* the platform operations the running call has issued, in order

vars == <<platform, PAGE_SIZE, regions, pc, size, align, ptr,
          aligned_ptr, ret, freed_ptr, freed_live, held, fail, panic_msg,
          ps_writes, ops>>

Init ==
    /\ platform \in {"unix", "windows"}
    /\ PAGE_SIZE = 0
    /\ regions = {}
    /\ pc = [t \in Threads |-> "idle"]
    /\ size = [t \in Threads |-> 0]
    /\ align = [t \in Threads |-> 0]
    /\ ptr = [t \in Threads |-> NULL]
    /\ aligned_ptr = [t \in Threads |-> NULL]
    /\ ret = [t \in Threads |-> NULL]
    /\ freed_ptr = [t \in Threads |-> NULL]
    /\ freed_live = [t \in Threads |-> FALSE]
    /\ held = [t \in Threads |-> {}]
    /\ fail = [t \in Threads |-> "none"]
    /\ panic_msg = [t \in Threads |-> "none"]
    /\ ps_writes = 0
    /\ ops = [t \in Threads |-> <<>>]

Own(r, t, k) == [base |-> r.base, len |-> r.len, owner |-> t, kind |-> k]

\* A call of the platform: what is asked, at which address, for how many bytes.
Op(o, a, l) == [op |-> o, addr |-> a, len |-> l]
Issue(t, o) == ops' = [ops EXCEPT ![t] = Append(@, o)]


\* ------------------------------------------------- decisions of the code
\* unix: the panic chosen in the EINVAL arm
EinvalMessagePowerFirst(a) ==
    IF ~IsPowerOfTwo(a) THEN "not_power_of_two"
    ELSE IF a < WordSize THEN "below_minimum"
    ELSE "invalid_alignment"
EinvalMessage(a) ==
    IF a < WordSize THEN "below_minimum"
    ELSE IF ~IsPowerOfTwo(a) THEN "not_power_of_two"
    ELSE "invalid_alignment"

\* unix: `match result`; the pointer is returned on 0, null on ENOMEM
UnixMatch(result, memptr, a) ==
    CASE result = "0" -> [pc |-> "returned", ret |-> memptr, msg |-> "none"]
      [] result = "EINVAL" -> [pc |-> "panicked", ret |-> NULL, msg |-> EinvalMessage(a)]
      [] result = "ENOMEM" -> [pc |-> "returned", ret |-> NULL, msg |-> "none"]
      [] OTHER -> [pc |-> "panicked", ret |-> NULL, msg |-> "unreachable"]

\* windows: assert!(align.is_power_of_two())
WinAssertAlways(a) == TRUE
WinAssert(a) == IsPowerOfTwo(a)

\* windows: `if PAGE_SIZE == 0 { get_page_size() }`.  PAGE_SIZE is a static mut
\* DWORD read and written without synchronisation; an aligned 32-bit load or
\* store is a single access, so a racing read sees 0 or the value stored.
PageSizeUnsetAlways(ps) == TRUE
PageSizeUnsetInverted(ps) == ps # 0
PageSizeUnset(ps) == ps = 0

\* windows: `if align <= PAGE_SIZE`
FastPathStrict(a, ps) == a < ps
FastPath(a, ps) == a <= ps

\* windows: `if ptr.is_null() { return ptr::null_mut() }` after step 1
ReserveFailedNever(p) == FALSE
ReserveFailed(p) == p = NULL

\* windows: `if res == 0 { panic!(..) }` after the step-3 release
ReleaseFailed(res) == res = 0

\* windows: the value returned after the final VirtualAlloc, `ptr as *mut ()`
CommitResultAligned(p, aligned) == aligned
CommitResult(p, aligned) == p

\* windows: where the call goes after the final VirtualAlloc returned p; the
\* code returns p whatever it is and does not go back to step 1.
AfterCommitRetry(p) == IF p = NULL THEN "reserve" ELSE "returned"
AfterCommit(p) == "returned"

\* windows: the length passed to the final VirtualAlloc, `size as SIZE_T`
CommitSizeReserved(sz, a) == ReserveSize(sz, a)
CommitSize(sz, a) == sz

\* windows: what VirtualFree(ptr, 0, MEM_RELEASE) in aligned_free leaves; with
\* MEM_DECOMMIT the region would stay reserved.
WinFreeDecommit(rs, p) ==
    {IF r.base = p THEN [r EXCEPT !.kind = "reserve"] ELSE r : r \in rs}
WinFreeRegions(rs, p) == VirtualFree(rs, p)

\* windows: `if res == 0 { panic!(..) }` in aligned_free
FreeFailedInverted(res) == res # 0
FreeFailedNever(res) == FALSE
FreeFailed(res) == res = 0

\* usize arithmetic that leaves the word range panics in a build with overflow
\* checks and wraps in one without; `checks` is the build's setting.
OverflowPanics(checks, overflows) == checks /\ overflows

\* --------------------------------------------------------------- actions
\* A panic ends the thread; `align` is kept as the panic's message shows it.
Panic(t, msg) ==
    /\ pc' = [pc EXCEPT ![t] = "panicked"]
    /\ panic_msg' = [panic_msg EXCEPT ![t] = msg]

\* The arguments the callers pass, while they own fewer than MaxLive allocations.
AllocCall(t, s, a) ==
    /\ pc[t] = "idle"
    /\ Cardinality(UNION {held[u] : u \in Threads}) < MaxLive
    /\ s \in Sizes
    /\ a \in Aligns

\* unix aligned_alloc(s, a): posix_memalign and the match on its result.
UnixAlloc(t) ==
    /\ platform = "unix"
    /\ \E s \in Sizes, a \in Aligns :
         /\ AllocCall(t, s, a)
         /\ \E out \in (IF ~PosixAlignmentOk(a)
                        THEN {[result |-> "EINVAL", chunk |-> {}, memptr |-> NULL]}
                        ELSE {[result |-> "ENOMEM", chunk |-> {}, memptr |-> NULL]}
                             \cup {[result |-> "0", chunk |-> {c}, memptr |-> c.base] :
                                     c \in PosixMemalign(regions, a, s)}) :
              LET m == UnixMatch(out.result, out.memptr, a)
              IN  /\ regions' = regions \cup {Own(c, t, "heap") : c \in out.chunk}
                  /\ pc' = [pc EXCEPT ![t] = m.pc]
                  /\ ret' = [ret EXCEPT ![t] = m.ret]
                  /\ panic_msg' = [panic_msg EXCEPT ![t] = m.msg]
                  /\ size' = [size EXCEPT ![t] = IF m.pc = "panicked" THEN 0 ELSE s]
                  /\ align' = [align EXCEPT ![t] = a]
                  /\ Issue(t, Op("memalign", NULL, s))
                  /\ fail' = [fail EXCEPT ![t] =
                                IF out.result = "ENOMEM" THEN "exhausted" ELSE "none"]
    /\ UNCHANGED <<platform, PAGE_SIZE, ptr, aligned_ptr, freed_ptr, freed_live,
                   held, ps_writes>>

\* windows aligned_alloc(s, a): the assert and the first read of PAGE_SIZE.
WinAllocEntry(t) ==
    /\ platform = "windows"
    /\ \E s \in Sizes, a \in Aligns :
         /\ AllocCall(t, s, a)
         /\ align' = [align EXCEPT ![t] = a]
         /\ IF ~WinAssert(a)
            THEN /\ Panic(t, "assert_power_of_two")
                 /\ size' = [size EXCEPT ![t] = 0]
            ELSE /\ pc' = [pc EXCEPT ![t] =
                        IF PageSizeUnset(PAGE_SIZE) THEN "get_page_size" ELSE "decide"]
                 /\ size' = [size EXCEPT ![t] = s]
                 /\ UNCHANGED panic_msg
    /\ UNCHANGED <<ops, platform, PAGE_SIZE, regions, ptr, aligned_ptr, ret, freed_ptr,
                   freed_live, held, fail, ps_writes>>

\* get_page_size(): PAGE_SIZE = info.dwPageSize
WinGetPageSize(t) ==
    /\ pc[t] = "get_page_size"
    /\ PAGE_SIZE' = PageSize
    /\ ps_writes' = ps_writes + 1
    /\ pc' = [pc EXCEPT ![t] = "decide"]
    /\ UNCHANGED <<ops, platform, regions, size, align, ptr, aligned_ptr,
                   ret, freed_ptr, freed_live, held, fail, panic_msg>>

\* `if align <= PAGE_SIZE as usize`
WinDecide(t) ==
    /\ pc[t] = "decide"
    /\ pc' = [pc EXCEPT ![t] = IF FastPath(align[t], PAGE_SIZE) THEN "fast" ELSE "reserve"]
    /\ UNCHANGED <<ops, platform, PAGE_SIZE, regions, size, align, ptr,
                   aligned_ptr, ret, freed_ptr, freed_live, held, fail, panic_msg,
                   ps_writes>>

\* Why VirtualAlloc(addr, sz) found nothing.
WinFailure(rs, addr, sz) ==
    IF sz = 0 THEN "invalid"
    ELSE IF addr # NULL /\ WinBusy(rs, RoundDown(addr, AllocGranularity),
                                 RoundUp(addr + sz, PageSize)) THEN "raced"
    ELSE "exhausted"

\* Fast path: one VirtualAlloc(null, size, MEM_COMMIT | MEM_RESERVE).
WinFast(t) ==
    /\ pc[t] = "fast"
    /\ \/ \E r \in VirtualAlloc(regions, NULL, size[t]) :
            /\ regions' = regions \cup {Own(r, t, "commit")}
            /\ ret' = [ret EXCEPT ![t] = r.base]
            /\ UNCHANGED fail
       \/ /\ ret' = [ret EXCEPT ![t] = NULL]
          /\ fail' = [fail EXCEPT ![t] = WinFailure(regions, NULL, size[t])]
          /\ UNCHANGED regions
    /\ pc' = [pc EXCEPT ![t] = "returned"]
    /\ Issue(t, Op("commit", NULL, size[t]))
    /\ UNCHANGED <<platform, PAGE_SIZE, size, align, ptr,
                   aligned_ptr, freed_ptr, freed_live, held, panic_msg, ps_writes>>

\* Step 1: VirtualAlloc(null, size + align - 1, MEM_RESERVE, PAGE_NOACCESS).
WinReserve(t) ==
    /\ pc[t] = "reserve"
    /\ \E checks \in BOOLEAN :
         IF OverflowPanics(checks, ReserveSizeOverflows(size[t], align[t]))
         THEN /\ Panic(t, "overflow")
              /\ UNCHANGED <<regions, ptr, ret, fail, ops>>
         ELSE \E p \in {[base |-> NULL, len |-> 0]}
                       \cup VirtualAlloc(regions, NULL, ReserveSize(size[t], align[t])) :
                /\ UNCHANGED panic_msg
                /\ Issue(t, Op("reserve", NULL, ReserveSize(size[t], align[t])))
                /\ regions' = IF p.base = NULL THEN regions
                              ELSE regions \cup {Own(p, t, "reserve")}
                /\ fail' = [fail EXCEPT ![t] =
                              IF p.base # NULL THEN @
                              ELSE WinFailure(regions, NULL, ReserveSize(size[t], align[t]))]
                /\ IF ReserveFailed(p.base)
                   THEN /\ pc' = [pc EXCEPT ![t] = "returned"]
                        /\ ret' = [ret EXCEPT ![t] = NULL]
                        /\ UNCHANGED ptr
                   ELSE /\ pc' = [pc EXCEPT ![t] = "release"]
                        /\ ptr' = [ptr EXCEPT ![t] = p.base]
                        /\ UNCHANGED ret
    /\ UNCHANGED <<platform, PAGE_SIZE, size, align, aligned_ptr,
                   freed_ptr, freed_live, held, ps_writes>>

\* Steps 2 and 3: compute the aligned address, VirtualFree the reservation.
WinRelease(t) ==
    /\ pc[t] = "release"
    /\ \E checks \in BOOLEAN :
         IF OverflowPanics(checks, AlignUpOverflows(ptr[t], align[t]))
         THEN /\ Panic(t, "overflow")
              /\ UNCHANGED <<regions, aligned_ptr, fail, ops>>
         ELSE /\ aligned_ptr' = [aligned_ptr EXCEPT ![t] = AlignUp(ptr[t], align[t])]
              /\ regions' = VirtualFree(regions, ptr[t])
              /\ Issue(t, Op("release", ptr[t], 0))
              /\ fail' = [fail EXCEPT ![t] =
                            IF VirtualFreeRes(regions, ptr[t]) = 0
                            THEN "release_failed" ELSE @]
              /\ IF ReleaseFailed(VirtualFreeRes(regions, ptr[t]))
                 THEN Panic(t, "release_reserved_failed")
                 ELSE /\ pc' = [pc EXCEPT ![t] = "commit"]
                      /\ UNCHANGED panic_msg
    /\ UNCHANGED <<platform, PAGE_SIZE, size, align, ptr, ret,
                   freed_ptr, freed_live, held, ps_writes>>

\* Step 4: VirtualAlloc(aligned_ptr, size, MEM_COMMIT | MEM_RESERVE).
WinCommit(t) ==
    /\ pc[t] = "commit"
    /\ \/ \E r \in VirtualAlloc(regions, aligned_ptr[t], CommitSize(size[t], align[t])) :
            /\ regions' = regions \cup {Own(r, t, "commit")}
            /\ ret' = [ret EXCEPT ![t] = CommitResult(r.base, aligned_ptr[t])]
            /\ pc' = [pc EXCEPT ![t] = AfterCommit(r.base)]
            /\ UNCHANGED fail
       \/ /\ ret' = [ret EXCEPT ![t] = CommitResult(NULL, aligned_ptr[t])]
          /\ fail' = [fail EXCEPT ![t] = WinFailure(regions, aligned_ptr[t],
                                                  CommitSize(size[t], align[t]))]
          /\ pc' = [pc EXCEPT ![t] = AfterCommit(NULL)]
          /\ UNCHANGED regions
    /\ Issue(t, Op("commit", aligned_ptr[t], CommitSize(size[t], align[t])))
    /\ UNCHANGED <<platform, PAGE_SIZE, size, align, ptr,
                   aligned_ptr, freed_ptr, freed_live, held, panic_msg, ps_writes>>

\* The caller takes the result of aligned_alloc and owns a non-null one.
AllocReturn(t) ==
    /\ pc[t] = "returned"
    /\ held' = [held EXCEPT ![t] =
                  IF ret[t] = NULL THEN @
                  ELSE @ \cup {[ptr |-> ret[t], size |-> size[t]]}]
    /\ pc' = [pc EXCEPT ![t] = "idle"]
    /\ size' = [size EXCEPT ![t] = 0]
    /\ align' = [align EXCEPT ![t] = 0]
    /\ ptr' = [ptr EXCEPT ![t] = NULL]
    /\ aligned_ptr' = [aligned_ptr EXCEPT ![t] = NULL]
    /\ ret' = [ret EXCEPT ![t] = NULL]
    /\ fail' = [fail EXCEPT ![t] = "none"]
    /\ ops' = [ops EXCEPT ![t] = <<>>]
    /\ UNCHANGED <<platform, PAGE_SIZE, regions, freed_ptr,
                   freed_live, panic_msg, ps_writes>>

\* A caller enters aligned_free with an allocation it owns.
FreeCall(t) ==
    /\ pc[t] = "idle"
    /\ \E h \in held[t] :
         /\ freed_ptr' = [freed_ptr EXCEPT ![t] = h.ptr]
         /\ held' = [held EXCEPT ![t] = @ \ {h}]
    /\ freed_live' = [freed_live EXCEPT ![t] = TRUE]
    /\ pc' = [pc EXCEPT ![t] = "free"]
    /\ UNCHANGED <<ops, platform, PAGE_SIZE, regions, size, align, ptr,
                   aligned_ptr, ret, fail, panic_msg, ps_writes>>

\* A caller passes the null pointer (a failed aligned_alloc's result).
FreeNullCall(t) ==
    /\ pc[t] = "idle"
    /\ freed_ptr' = [freed_ptr EXCEPT ![t] = NULL]
    /\ freed_live' = [freed_live EXCEPT ![t] = FALSE]
    /\ pc' = [pc EXCEPT ![t] = "free"]
    /\ UNCHANGED <<ops, platform, PAGE_SIZE, regions, size, align, ptr,
                   aligned_ptr, ret, held, fail, panic_msg, ps_writes>>

\* unix aligned_free: free(ptr), which ignores the null pointer.
UnixFree(t) ==
    /\ platform = "unix"
    /\ pc[t] = "free"
    /\ regions' = {r \in regions : r.base # freed_ptr[t]}
    /\ pc' = [pc EXCEPT ![t] = "freed"]
    /\ Issue(t, Op("free", freed_ptr[t], 0))
    /\ UNCHANGED <<platform, PAGE_SIZE, size, align, ptr,
                   aligned_ptr, ret, freed_ptr, freed_live, held, fail, panic_msg,
                   ps_writes>>

\* windows aligned_free: VirtualFree(ptr, 0, MEM_RELEASE), panic on failure.
WinFree(t) ==
    /\ platform = "windows"
    /\ pc[t] = "free"
    /\ regions' = WinFreeRegions(regions, freed_ptr[t])
    /\ fail' = [fail EXCEPT ![t] =
                  IF VirtualFreeRes(regions, freed_ptr[t]) = 0
                  THEN "release_failed" ELSE @]
    /\ IF FreeFailed(VirtualFreeRes(regions, freed_ptr[t]))
       THEN Panic(t, "release_failed")
       ELSE /\ pc' = [pc EXCEPT ![t] = "freed"]
            /\ UNCHANGED panic_msg
    /\ Issue(t, Op("release", freed_ptr[t], 0))
    /\ UNCHANGED <<platform, PAGE_SIZE, size, align, ptr,
                   aligned_ptr, ret, freed_ptr, freed_live, held, ps_writes>>

\* aligned_free has returned.
FreeReturn(t) ==
    /\ pc[t] = "freed"
    /\ pc' = [pc EXCEPT ![t] = "idle"]
    /\ freed_ptr' = [freed_ptr EXCEPT ![t] = NULL]
    /\ freed_live' = [freed_live EXCEPT ![t] = FALSE]
    /\ fail' = [fail EXCEPT ![t] = "none"]
    /\ ops' = [ops EXCEPT ![t] = <<>>]
    /\ UNCHANGED <<platform, PAGE_SIZE, regions, size, align, ptr,
                   aligned_ptr, ret, held, panic_msg, ps_writes>>

Next ==
    \E t \in Threads :
        \/ UnixAlloc(t)
        \/ WinAllocEntry(t)
        \/ WinGetPageSize(t)
        \/ WinDecide(t)
        \/ WinFast(t)
        \/ WinReserve(t)
        \/ WinRelease(t)
        \/ WinCommit(t)
        \/ AllocReturn(t)
        \/ FreeCall(t)
        \/ FreeNullCall(t)
        \/ UnixFree(t)
        \/ WinFree(t)
        \/ FreeReturn(t)

Spec == Init /\ [][Next]_vars

\* The steps a thread takes inside a call it has started.  Each thread runs its
\* own straight-line code and every platform call returns, so a thread that is
\* inside a call takes its next step.
Step(t) ==
    \/ WinGetPageSize(t)
    \/ WinDecide(t)
    \/ WinFast(t)
    \/ WinReserve(t)
    \/ WinRelease(t)
    \/ WinCommit(t)
    \/ UnixFree(t)
    \/ WinFree(t)

FairSpec == Spec /\ \A t \in Threads : WF_vars(Step(t))

TypeOK ==
    /\ platform \in {"unix", "windows"}
    /\ PAGE_SIZE \in {0, PageSize}
    /\ \A r \in regions : r.base \in UserLo .. (UserHi - 1) /\ r.base + r.len <= UserHi
    /\ \A t \in Threads : ret[t] \in 0 .. (Modulus - 1)

\* ---------------------------------------------------------------- claims
\* The positions of a thread inside aligned_alloc, past its entry checks.
AllocPcs == {"get_page_size", "decide", "fast", "reserve", "release", "commit",
             "returned"}

\* The panics aligned_alloc raises about its arguments.
ArgumentPanics == {"below_minimum", "not_power_of_two", "invalid_alignment",
                   "assert_power_of_two"}

PowerOfTwo(a) == \E k \in 0 .. (WordBits - 1) : a = 2 ^ k

\* The documented contract on `align`.
ValidAlign(a) == PowerOfTwo(a) /\ a >= WordSize

\* An allocation a call has returned and its caller has not taken yet.
Returned(t) == pc[t] = "returned" /\ ret[t] # NULL
ReturnedAlloc(t) == [ptr |-> ret[t], size |-> size[t]]

Disjoint(x, y) == x.ptr + x.size <= y.ptr \/ y.ptr + y.size <= x.ptr

\* Some region of another thread holds a byte of [lo, hi).
ClaimedByOther(t, lo, hi) ==
    \E r \in regions : r.owner # t /\ r.base < hi /\ lo < r.base + r.len

\* C1: a non-null address returned for a size >= 1 and a valid align is a
\* multiple of align, on unix and on both paths of windows.
C1_Aligned ==
    \A t \in Threads :
        (Returned(t) /\ size[t] >= 1 /\ ValidAlign(align[t]))
            => ret[t] % align[t] = 0

\* The slow path returned an address although its reservation's base was not
\* a multiple of the alignment.
C1_Witness ==
    \E t \in Threads :
        /\ Returned(t)
        /\ align[t] > AllocGranularity
        /\ ptr[t] # NULL
        /\ ptr[t] % align[t] # 0
        /\ ret[t] % align[t] = 0

\* C2: the byte ranges [p, p + size) of the allocations that have been
\* returned non-null and not been freed are pairwise disjoint, in every
\* interleaving of the threads.
C2_Exclusive ==
    /\ \A t, u \in Threads : \A x \in held[t], y \in held[u] :
           (t # u \/ x # y) => Disjoint(x, y)
    /\ \A t, u \in Threads : Returned(t) =>
           \A y \in held[u] : Disjoint(ReturnedAlloc(t), y)
    /\ \A t, u \in Threads : (t # u /\ Returned(t) /\ Returned(u)) =>
           Disjoint(ReturnedAlloc(t), ReturnedAlloc(u))

\* Two allocations are live, one of them made by the slow path after another
\* thread's allocation had been placed.
C2_Witness ==
    \E t, u \in Threads :
        /\ t # u
        /\ held[u] # {}
        /\ Returned(t)
        /\ platform = "windows"
        /\ align[t] > AllocGranularity

\* C3: aligned_alloc never returns (an address or null) for an align below
\* the word size, on either platform.
C3_BelowMinimumRejected ==
    \A t \in Threads : pc[t] = "returned" => align[t] >= WordSize

\* C4: a call whose align is not a power of two never gets past its entry
\* (it neither runs a platform operation nor returns) and ends in a panic
\* that leaves the thread no address range but its earlier allocations.
C4_NotPowerOfTwoRejected ==
    \A t \in Threads :
        /\ pc[t] \in AllocPcs => PowerOfTwo(align[t])
        /\ (pc[t] = "panicked" /\ panic_msg[t] \in ArgumentPanics
                /\ ~PowerOfTwo(align[t]))
             => \A r \in regions : r.owner = t => \E h \in held[t] : h.ptr = r.base

\* A call with a non-zero align that is not a power of two has panicked.
C4_Witness ==
    \E t \in Threads :
        /\ pc[t] = "panicked"
        /\ panic_msg[t] \in ArgumentPanics
        /\ align[t] # 0
        /\ ~PowerOfTwo(align[t])

\* C5: a call with align 0 never gets past its entry: it does not return.
C5_ZeroRejected ==
    \A t \in Threads : pc[t] \in AllocPcs => align[t] # 0

\* A call with align 0 has panicked on windows.
C5_Witness ==
    \E t \in Threads :
        /\ platform = "windows"
        /\ pc[t] = "panicked"
        /\ panic_msg[t] \in ArgumentPanics
        /\ align[t] = 0

\* C6: when posix_memalign reports ENOMEM, or a VirtualAlloc of the fast
\* path, of step 1 or of step 4 finds no memory or address space, the call
\* returns null and does not panic.
C6_ExhaustionIsNull ==
    \A t \in Threads :
        fail[t] = "exhausted" => (pc[t] = "returned" /\ ret[t] = NULL)

\* The step-4 VirtualAlloc found no memory and the call returned null.
C6_Witness ==
    \E t \in Threads :
        /\ pc[t] = "returned"
        /\ fail[t] = "exhausted"
        /\ aligned_ptr[t] # NULL
        /\ ValidAlign(align[t])

\* C7: a slow-path call that finds part of [aligned, aligned + size) claimed
\* by another thread at its step 4 returns null, does not panic, holds no
\* address range but its earlier allocations, and leaves every region as it is.
C7_RaceIsNull ==
    [][\A t \in Threads :
         (/\ pc[t] = "commit"
          /\ pc'[t] # "commit"
          /\ ClaimedByOther(t, aligned_ptr[t], aligned_ptr[t] + size[t]))
            => /\ pc'[t] = "returned"
               /\ ret'[t] = NULL
               /\ regions' = regions
               /\ held' = held
               /\ \A r \in regions' :
                      r.owner = t => \E h \in held'[t] : h.ptr = r.base]_vars

\* A slow-path call whose range lies in the user address space has lost its
\* address to another thread and returned.
C7_Witness ==
    \E t \in Threads :
        /\ pc[t] = "returned"
        /\ fail[t] = "raced"
        /\ aligned_ptr[t] + size[t] <= UserHi
        /\ ClaimedByOther(t, aligned_ptr[t], aligned_ptr[t] + size[t])

\* C8: aligned_free of a live allocation of the caller does not panic.
C8_RoundTrip ==
    \A t \in Threads :
        (pc[t] \in {"free", "freed", "panicked"} /\ freed_live[t])
            => (pc[t] # "panicked" /\ fail[t] # "release_failed")

\* aligned_free of a live allocation has returned on windows and the
\* allocation's region is gone.
C8_Witness ==
    \E t \in Threads :
        /\ platform = "windows"
        /\ pc[t] = "freed"
        /\ freed_live[t]
        /\ \A r \in regions : r.base # freed_ptr[t]

\* C9 as stated: PAGE_SIZE is assigned at most one time in an execution.
C9_WrittenAtMostOnce == ps_writes <= 1

\* C9 as amended: PAGE_SIZE is assigned at most once for each thread, every
\* assignment stores the platform's page size, and PAGE_SIZE holds it from the
\* first assignment on.
C9_WrittenOncePerThread ==
    /\ ps_writes <= Cardinality(Threads)
    /\ ps_writes > 0 => PAGE_SIZE = PageSize
    /\ ps_writes = 0 => PAGE_SIZE = 0

\* Two threads have each assigned PAGE_SIZE.
C9_Witness == ps_writes = Cardinality(Threads)

Reservation(t) ==
    {r \in regions : r.owner = t /\ r.kind = "reserve" /\ r.base = ptr[t]}

\* C11 (first half): the step-2 address is the least multiple of align that
\* is not below the reservation's base.
C11_LeastMultiple ==
    \A t \in Threads :
        pc[t] = "release" =>
            LET a == AlignUp(ptr[t], align[t])
            IN  /\ a % align[t] = 0
                /\ a >= ptr[t]
                /\ a - ptr[t] < align[t]

\* C11: the step-2 address is the least multiple of align that is not below
\* the reservation's base, and [aligned, aligned + size) lies inside the
\* step-1 reservation.
C11_AlignedInsideReservation ==
    \A t \in Threads :
        pc[t] = "release" =>
            LET a == AlignUp(ptr[t], align[t])
            IN  /\ a % align[t] = 0
                /\ a >= ptr[t]
                /\ a - ptr[t] < align[t]
                /\ \E r \in Reservation(t) : a + size[t] <= r.base + r.len

\* The operations the slow path issues, with the arguments the call computes.
ReserveOp(t) == Op("reserve", NULL, ReserveSize(size[t], align[t]))
ReleaseOp(t) == Op("release", ptr[t], 0)
CommitOp(t) == Op("commit", AlignUp(ptr[t], align[t]), size[t])

\* A call that has returned from the slow path.
SlowReturned(t) ==
    platform = "windows" /\ pc[t] = "returned" /\ align[t] > PageSize

\* The regions the running call of t has obtained: those of t that are not an
\* allocation t already owns.
CallRegions(t) ==
    {r \in regions : r.owner = t /\ r.base \notin {h.ptr : h \in held[t]}}

FastOp(t) == Op("commit", NULL, size[t])

\* C13: on windows a call with align <= page size, align = page size included,
\* issues exactly one reserve-and-commit of size bytes at an address the
\* platform chooses, and no reservation and no release; a call with
\* align > page size never takes that path.
C13_FastPathSelection ==
    \A t \in Threads :
        /\ pc[t] \in {"reserve", "release", "commit"} => align[t] > PageSize
        /\ pc[t] = "fast" => align[t] <= PageSize /\ ops[t] = <<>>
        /\ (platform = "windows" /\ pc[t] = "returned" /\ align[t] <= PageSize) =>
              /\ ops[t] = <<FastOp(t)>>
              /\ \A r \in CallRegions(t) : r.kind = "commit" /\ r.base = ret[t]
        /\ SlowReturned(t) => \A i \in 1 .. Len(ops[t]) : ops[t][i] # FastOp(t)

\* A call with align = page size returned an address from the fast path while
\* a call with a larger align is in the slow path.
C13_Witness ==
    \E t, u \in Threads :
        /\ platform = "windows" /\ pc[t] = "returned"
        /\ align[t] = PageSize /\ ret[t] # NULL /\ ops[t] = <<FastOp(t)>>
        /\ pc[u] = "release" /\ align[u] > PageSize

\* C14: once PAGE_SIZE is non-zero no step changes it, every assignment
\* stores the platform page size, and every evaluation of `align <= PAGE_SIZE`
\* reads PAGE_SIZE equal to the page size, never 0, whatever the interleaving
\* of the threads' first calls.
C14_CacheStable ==
    [][/\ PAGE_SIZE # 0 => PAGE_SIZE' = PAGE_SIZE
       /\ PAGE_SIZE' # PAGE_SIZE => PAGE_SIZE' = PageSize
       /\ \A t \in Threads :
            (pc[t] = "decide" /\ pc'[t] # "decide") =>
                /\ PAGE_SIZE = PageSize
                /\ pc'[t] = "fast" <=> align[t] <= PageSize]_vars

\* Two first calls raced: one thread is about to decide with the cache set
\* while the other, having read 0, is about to assign it again.
C14_Witness ==
    \E t, u \in Threads :
        /\ pc[t] = "decide" /\ pc[u] = "get_page_size"
        /\ PAGE_SIZE = PageSize /\ ps_writes = 1

\* C15: the step in which aligned_free(p) succeeds for a live p leaves none of
\* the address space its caller obtained for p reserved or committed, and
\* leaves every other region (base, length, owner, state) as it was.
C15_FreeReleasesExactly ==
    [][\A t \in Threads :
          (pc[t] = "free" /\ freed_live[t] /\ pc'[t] = "freed") =>
              /\ CallRegions(t) # {}
              /\ CallRegions(t)' = {}
              /\ \A r \in regions' : r.base # freed_ptr[t]
              /\ regions' \subseteq regions
              /\ \A r \in regions : r.base # freed_ptr[t] => r \in regions'
              /\ held' = held]_vars

\* On windows a live allocation has been freed while the other thread owns an
\* allocation, whose region is all that is left.
C15_Witness ==
    \E t, u \in Threads :
        /\ platform = "windows" /\ pc[t] = "freed" /\ freed_live[t]
        /\ \E h \in held[u] :
              regions = {r \in regions : r.owner = u /\ r.base = h.ptr
                                         /\ r.kind = "commit" /\ r.len >= h.size}
        /\ regions # {}

\* The diagnostic the contract names for an alignment the platform refused.
Diagnostic(a) ==
    IF a < WordSize THEN "below_minimum"
    ELSE IF ~PowerOfTwo(a) THEN "not_power_of_two"
    ELSE "invalid_alignment"

\* C16: on unix a call whose alignment posix_memalign refuses panics with
\* "below minimum" when align < word size (0 and 3 included), else with
\* "not a power of two" when align is not one, else with the generic
\* message; a call with a valid align raises none of the three.
C16_DiagnosticOrder ==
    \A t \in Threads :
        platform = "unix" =>
            /\ pc[t] = "panicked" =>
                  /\ ~ValidAlign(align[t])
                  /\ panic_msg[t] = Diagnostic(align[t])
            /\ (pc[t] = "returned" \/ ValidAlign(align[t])) =>
                  panic_msg[t] \notin ArgumentPanics
            /\ pc[t] = "returned" => ValidAlign(align[t])

\* One call was refused for align 3, which is below the word size and not a
\* power of two, another for an align above the word size that is not a
\* power of two.
C16_Witness ==
    \E t, u \in Threads :
        /\ platform = "unix"
        /\ pc[t] = "panicked" /\ align[t] = 3 /\ panic_msg[t] = "below_minimum"
        /\ pc[u] = "panicked" /\ align[u] > WordSize
        /\ panic_msg[u] = "not_power_of_two"

\* A thread inside a call, and a thread whose call is over.
InCall(t) == pc[t] \in {"get_page_size", "decide", "fast", "reserve", "release",
                        "commit", "free"}
Done(t) == pc[t] \in {"returned", "freed", "panicked"}

\* The operations a call has issued are within what its path allows: at most
\* three, none twice, one for the fast path and for unix, one for a free.
OpsWithinPath(t) ==
    /\ Len(ops[t]) <= 3
    /\ \A i, j \in 1 .. Len(ops[t]) : i # j => ops[t][i].op # ops[t][j].op
    /\ (pc[t] = "returned" /\ (platform = "unix" \/ align[t] <= PageSize)) =>
          Len(ops[t]) = 1
    /\ pc[t] = "freed" => Len(ops[t]) = 1
    /\ (pc[t] = "panicked" /\ panic_msg[t] = "release_failed") => Len(ops[t]) = 1
    /\ (pc[t] = "returned" /\ fail[t] = "raced") =>
          ret[t] = NULL /\ Len(ops[t]) = 3

\* C17: with each thread taking its own steps, a started aligned_alloc
\* returns or panics after at most three platform operations (one on the fast
\* path and on unix), a started aligned_free returns or panics after exactly
\* one, whatever the other threads do, and a slow path that lost the address
\* race returns null without going back to step 1.  A thread leaves a call
\* only by returning or panicking, and no thread stays inside a call for ever.
C17_CallsComplete ==
    /\ [](\A t \in Threads : OpsWithinPath(t))
    /\ [][\A t \in Threads : (InCall(t) /\ ~InCall(t)') => Done(t)']_vars
    /\ \A t \in Threads : []<>(~InCall(t))

\* A slow-path call lost the address race and returned null after its three
\* operations while the other thread is inside a call of its own.
C17_Witness ==
    \E t, u \in Threads :
        /\ pc[t] = "returned" /\ fail[t] = "raced" /\ Len(ops[t]) = 3
        /\ InCall(u)

\* C18: a non-null address the slow path returns is the base of a committed
\* region of the call of at least size bytes, also for the pairs whose
\* size + align - 1 leaves the word range and is computed modulo 2^WordBits.
C18_NonNullBacksSize ==
    \A t \in Threads :
        (SlowReturned(t) /\ ret[t] # NULL) =>
            \E r \in CallRegions(t) :
                /\ r.kind = "commit"
                /\ r.base = ret[t]
                /\ r.len >= size[t]

\* A call whose size + align - 1 wrapped got its small reservation, asked for
\* size bytes at the aligned address and returned null, while another
\* slow-path call returned an address.
C18_Witness ==
    \E t, u \in Threads :
        /\ SlowReturned(t) /\ ret[t] # NULL
        /\ SlowReturned(u) /\ ReserveSizeOverflows(size[u], align[u])
        /\ ptr[u] # NULL /\ Len(ops[u]) = 3 /\ ret[u] = NULL
====
